---- MODULE Spec2Model ----
(***************************************************************************)
(* MiniSysLogHandler (src/__init__.py): a logging.handlers.SysLogHandler   *)
(* subclass whose emit() frames a log record as an RFC 5424 message and    *)
(* writes it to the handler's socket.                                      *)
(*                                                                         *)
(* The module is Python 2 code: emit() names the builtin `unicode`, and the *)
(* model follows Python 2 semantics for str/unicode and for the exception  *)
(* classes.  The inherited SysLogHandler parts that emit() and __init__    *)
(* call (the base __init__, mapPriority, encodePriority) are modelled at   *)
(* their call sites.                                                       *)
(*                                                                         *)
(* Strings are sequences of one-character strings, so that formatting      *)
(* ('%d', '%03d', strftime, '%s %s ...' % (...)) is modelled by what it    *)
(* produces and can be parsed back.                                        *)
(***************************************************************************)
EXTENDS Integers, Sequences, FiniteSets, TLC

VARIABLES
    fqdn,         \* module global fqdn = socket.getfqdn(), resolved at import
    cfgAddress,   \* the `address` argument given to __init__
    appname,      \* self.appname
    procid,       \* self.procid
    msgid,        \* self.msgid
    sd,           \* self.sd
    address,      \* self.address
    facility,     \* self.facility
    unixsocket,   \* self.unixsocket
    socktype,     \* self.socktype
    sockOpen,     \* whether self.socket is open
    emits,        \* number of emit() calls made so far
    record,       \* the LogRecord of the latest emit() call
    sdAtCall,     \* the value of self.sd read by the latest emit() call
    trace,        \* what the latest emit() call did, in order
    escaped       \* the exception that left the latest emit() call, or "none"

vars == <<fqdn, cfgAddress, appname, procid, msgid, sd, address,
          facility, unixsocket, socktype, sockOpen, emits, record, sdAtCall, trace, escaped>>

-----------------------------------------------------------------------------
(* Bounds of the model *)

MaxEmits == 2

-----------------------------------------------------------------------------
(* Characters and numbers *)

Digits == <<"0", "1", "2", "3", "4", "5", "6", "7", "8", "9">>

DigitChar(d) == Digits[d + 1]

\* '%d' % n for n >= 0
RECURSIVE FmtD(_)
FmtD(n) == IF n < 10 THEN <<DigitChar(n)>>
           ELSE FmtD(n \div 10) \o <<DigitChar(n % 10)>>

RECURSIVE ZeroFill(_, _)
ZeroFill(s, w) == IF Len(s) >= w THEN s ELSE ZeroFill(<<"0">> \o s, w)

\* '%0wd' % n for n >= 0: at least w characters, zero-filled on the left
FmtZeroPad(n, w) == ZeroFill(FmtD(n), w)

NonAscii == "U+00E9"

-----------------------------------------------------------------------------
(* time.gmtime and time.strftime *)

\* proleptic Gregorian date of a day number counted from 1970-01-01
CivilFromDays(days) ==
    LET z   == days + 719468
        era == z \div 146097
        doe == z - era * 146097
        yoe == (doe - doe \div 1460 + doe \div 36524 - doe \div 146096) \div 365
        doy == doe - (365 * yoe + yoe \div 4 - yoe \div 100)
        mp  == (5 * doy + 2) \div 153
        d   == doy - (153 * mp + 2) \div 5 + 1
        m   == IF mp < 10 THEN mp + 3 ELSE mp - 9
        y   == yoe + era * 400 + (IF m <= 2 THEN 1 ELSE 0)
    IN  [year |-> y, mon |-> m, mday |-> d]

\* time.gmtime(created): the whole seconds of `created`, broken down in UTC
gmtime(created) ==
    LET days == created \div 86400
        rem  == created % 86400
        date == CivilFromDays(days)
    IN  [year |-> date.year, mon |-> date.mon, mday |-> date.mday,
         hour |-> rem \div 3600, min |-> (rem % 3600) \div 60, sec |-> rem % 60]

\* time.strftime('%Y-%m-%dT%H:%M:%S', ct)
strftime(ct) ==
    FmtZeroPad(ct.year, 4) \o <<"-">> \o FmtZeroPad(ct.mon, 2) \o <<"-">> \o
    FmtZeroPad(ct.mday, 2) \o <<"T">> \o FmtZeroPad(ct.hour, 2) \o <<":">> \o
    FmtZeroPad(ct.min, 2) \o <<":">> \o FmtZeroPad(ct.sec, 2)

\* the fraction written with '%d' in place of '%03d'
TimestampFormat_NoPad(t, msecs) == t \o <<".">> \o FmtD(msecs) \o <<"Z">>

\* '%s.%03dZ' % (t, record.msecs): %d truncates the float msecs to an integer
TimestampFormat(t, msecs) == t \o <<".">> \o FmtZeroPad(msecs, 3) \o <<"Z">>

get_timestamp(rec) == TimestampFormat(strftime(gmtime(rec.created)), rec.msecs)

-----------------------------------------------------------------------------
(* Inherited priority encoding: SysLogHandler.mapPriority / encodePriority *)

\* facility codes of SysLogHandler: LOG_KERN = 0 .. LOG_LOCAL7 = 23
LOG_USER   == 1
LOG_LOCAL7 == 23

DEBUG    == <<"D", "E", "B", "U", "G">>
INFO     == <<"I", "N", "F", "O">>
WARNING  == <<"W", "A", "R", "N", "I", "N", "G">>
ERROR    == <<"E", "R", "R", "O", "R">>
CRITICAL == <<"C", "R", "I", "T", "I", "C", "A", "L">>
TRACE    == <<"T", "R", "A", "C", "E">>      \* a level added by the application

\* priority_map.get(levelName, "warning")
mapPriority(levelName) ==
    CASE levelName = DEBUG    -> "debug"
      [] levelName = INFO     -> "info"
      [] levelName = WARNING  -> "warning"
      [] levelName = ERROR    -> "error"
      [] levelName = CRITICAL -> "critical"
      [] OTHER                -> "warning"

\* priority_names[priority]
priority_names(priority) ==
    CASE priority = "critical" -> 2
      [] priority = "error"    -> 3
      [] priority = "warning"  -> 4
      [] priority = "info"     -> 6
      [] priority = "debug"    -> 7

RECURSIVE BitOr(_, _)
BitOr(a, b) == IF a = 0 THEN b
               ELSE IF b = 0 THEN a
               ELSE (IF a % 2 = 1 \/ b % 2 = 1 THEN 1 ELSE 0)
                    + 2 * BitOr(a \div 2, b \div 2)

\* (facility << 3) | priority
encodePriority(fac, priority) == BitOr(fac * 8, priority_names(priority))

\* the priority written as the base class writes it, '<%d>', with no version
PrioFormat_NoVersion(pri) == <<"<">> \o FmtD(pri) \o <<">">>

\* '<%d>1 ' % pri
PrioFormat(pri) == <<"<">> \o FmtD(pri) \o <<">", "1", " ">>

-----------------------------------------------------------------------------
(* Python '%' formatting with %s conversions, and the two frame layouts *)

RECURSIVE PyFormat(_, _)
PyFormat(fmt, args) ==
    IF fmt = <<>> THEN <<>>
    ELSE IF Head(fmt) = "%s" THEN Head(args) \o PyFormat(Tail(fmt), Tail(args))
    ELSE <<Head(fmt)>> \o PyFormat(Tail(fmt), args)

\* '%s %s %s %s %s %s'
SdFormat == <<"%s", " ", "%s", " ", "%s", " ", "%s", " ", "%s", " ", "%s">>

\* the layout without the - token
NoSdFormat_NoDash == SdFormat

\* '%s %s %s %s %s - %s'
NoSdFormat == <<"%s", " ", "%s", " ", "%s", " ", "%s", " ", "%s", " ", "-", " ", "%s">>

NUL == "NUL"

\* the formatted record with no terminator
Terminate_NoNul(body) == body

\* self.format(record) + '\000'
Terminate(body) == body \o <<NUL>>

\* `self.sd is True`: identity with the bool True, not truthiness
SdIsTrue(v) == v = "True"

-----------------------------------------------------------------------------
(* Text encoding (Python 2 str/unicode semantics) *)

\* the UTF-8 bytes of the one non-ASCII character of the model
Utf8Bytes == <<"0xC3", "0xA9">>

RECURSIVE Utf8Encode(_)
Utf8Encode(s) ==
    IF s = <<>> THEN <<>>
    ELSE (IF Head(s) = NonAscii THEN Utf8Bytes ELSE <<Head(s)>>) \o Utf8Encode(Tail(s))

\* a byte string is ASCII when it holds no byte >= 0x80
IsAsciiBytes(b) == \A i \in 1..Len(b) : b[i] \notin {NonAscii, "0xC3", "0xA9"}

-----------------------------------------------------------------------------
(* Exceptions *)

NoExc == "none"

\* the classes an exception raised in emit() is an instance of (Python 2, where
\* socket.error derives from IOError, a sibling of OSError)
ExcBases(exc) ==
    CASE exc = "TypeError"          -> {"TypeError", "StandardError", "Exception"}
      [] exc = "UnicodeDecodeError" -> {"UnicodeDecodeError", "ValueError",
                                        "StandardError", "Exception"}
      [] exc = "socket.error"       -> {"socket.error", "IOError", "EnvironmentError",
                                        "StandardError", "Exception"}

\* `except OSError:` around the first send on a Unix socket
InnerCatches(exc) == "OSError" \in ExcBases(exc)

\* an outer handler that catches OSError only
OuterCatches_OSErrorOnly(exc) == "OSError" \in ExcBases(exc)

\* `except Exception:` around the whole body of emit()
OuterCatches(exc) == "Exception" \in ExcBases(exc)

-----------------------------------------------------------------------------
(* Addresses *)

InetAddr(host, port) == [kind |-> "tuple", host |-> host, port |-> port]
PathAddr(path)       == [kind |-> "str", host |-> path, port |-> 0]
NoAddr               == [kind |-> "none", host |-> "", port |-> 0]

\* the default of the `address` parameter of MiniSysLogHandler.__init__
DefaultAddress == InetAddr("127.0.0.1", 514)

\* the default of the `address` parameter of SysLogHandler.__init__
BaseDefaultAddress == InetAddr("localhost", 514)

-----------------------------------------------------------------------------
(* Events of one emit() call *)

Event(ev, data, to, ok, exc) ==
    [ev |-> ev, data |-> data, to |-> to, ok |-> ok, exc |-> exc]

Send(how, data, to, ok) == Event(how, data, to, ok, NoExc)
Close                   == Event("close", <<>>, NoAddr, TRUE, NoExc)
Connect(to, ok)         == Event("connect", <<>>, to, ok, NoExc)
HandleError(exc)        == Event("handleError", <<>>, NoAddr, TRUE, exc)

\* the result of running the try-body: what it did, how it ended, the socket after it
Outcome(events, exc, open) == [events |-> events, exc |-> exc, open |-> open]

-----------------------------------------------------------------------------
(* emit() *)

\* the frame with the configured msgid in the MSGID slot
Frame_MsgidInSlot(rec, msg) ==
    LET prio == PrioFormat(encodePriority(facility, mapPriority(rec.levelname)))
        ts   == get_timestamp(rec)
        args == <<ts, fqdn, appname, procid, msgid, msg>>
    IN  prio \o PyFormat(IF SdIsTrue(sd) THEN SdFormat ELSE NoSdFormat, args)

\* the framed message built from the record and the handler's fields
Frame(rec, msg) ==
    LET prio == PrioFormat(encodePriority(facility, mapPriority(rec.levelname)))
        ts   == get_timestamp(rec)
        args == <<ts, fqdn, appname, procid, rec.levelname, msg>>
    IN  prio \o PyFormat(IF SdIsTrue(sd) THEN SdFormat ELSE NoSdFormat, args)

\* a dispatch that closes, reconnects and resends on every transport
Dispatch_RetryAnyTransport(msg, net) ==
    IF net.send1 /\ sockOpen
    THEN Outcome(<<Send("sendto", msg, address, TRUE)>>, NoExc, sockOpen)
    ELSE IF ~net.connect
    THEN Outcome(<<Send("sendto", msg, address, FALSE), Close, Connect(address, FALSE)>>,
                 "socket.error", FALSE)
    ELSE Outcome(<<Send("sendto", msg, address, FALSE), Close, Connect(address, TRUE),
                   Send("sendto", msg, address, net.send2)>>,
                 IF net.send2 THEN NoExc ELSE "socket.error", TRUE)

\* the transport dispatch; net says which socket operations succeed
Dispatch(msg, net) ==
    IF unixsocket THEN
        IF net.send1 /\ sockOpen
        THEN Outcome(<<Send("send", msg, address, TRUE)>>, NoExc, sockOpen)
        ELSE IF ~InnerCatches("socket.error")
        THEN Outcome(<<Send("send", msg, address, FALSE)>>, "socket.error", sockOpen)
        ELSE IF ~net.connect
        THEN Outcome(<<Send("send", msg, address, FALSE), Close, Connect(address, FALSE)>>,
                     "socket.error", FALSE)
        ELSE Outcome(<<Send("send", msg, address, FALSE), Close, Connect(address, TRUE),
                       Send("send", msg, address, net.send2)>>,
                     IF net.send2 THEN NoExc ELSE "socket.error", TRUE)
    ELSE IF socktype = "SOCK_DGRAM" THEN
        LET ok == net.send1 /\ sockOpen
        IN  Outcome(<<Send("sendto", msg, address, ok)>>,
                    IF ok THEN NoExc ELSE "socket.error", sockOpen)
    ELSE
        LET ok == net.send1 /\ sockOpen
        IN  Outcome(<<Send("sendall", msg, address, ok)>>,
                    IF ok THEN NoExc ELSE "socket.error", sockOpen)

\* the body of the try statement of emit()
TryBody(rec, net) ==
    IF rec.formatRaises THEN Outcome(<<>>, "TypeError", sockOpen)
    ELSE LET msg0 == Terminate(rec.body)
             msg1 == IF rec.isUnicode THEN Utf8Encode(msg0) ELSE msg0
         IN  IF ~IsAsciiBytes(msg1)
             THEN Outcome(<<>>, "UnicodeDecodeError", sockOpen)
             ELSE Dispatch(Frame(rec, msg1), net)

Emit(rec, net) ==
    /\ emits < MaxEmits
    /\ \E out \in {TryBody(rec, net)} :
         \E caught \in {out.exc # NoExc /\ OuterCatches(out.exc)} :
           /\ trace' = IF caught THEN Append(out.events, HandleError(out.exc))
                                 ELSE out.events
           /\ escaped' = IF out.exc # NoExc /\ ~caught THEN out.exc ELSE NoExc
           /\ sockOpen' = out.open
    /\ record' = rec
    /\ sdAtCall' = sd
    /\ emits' = emits + 1
    /\ UNCHANGED <<fqdn, cfgAddress, appname, procid, msgid, sd, address,
                   facility, unixsocket, socktype>>

\* `syslog.sd = True`: the flag is assigned between calls
SetSd(v) ==
    /\ v # sd
    /\ sd' = v
    /\ UNCHANGED <<fqdn, cfgAddress, appname, procid, msgid, address,
                   facility, unixsocket, socktype, sockOpen, emits, record,
                   sdAtCall, trace, escaped>>

-----------------------------------------------------------------------------
(* Inputs *)

Hostnames == { <<"i", "m", "g", "0">> }
\* (appname, procid) pairs: the defaults, set values, and each one empty
Idents    == { [appname |-> <<"-">>, procid |-> <<"-">>],
               [appname |-> <<"A", "p", "p">>, procid |-> <<"T", "1">>],
               [appname |-> <<>>, procid |-> <<"T", "1">>],
               [appname |-> <<"A", "p", "p">>, procid |-> <<>>] }
MsgIds    == { <<"-">>, <<"I", "D", "4", "7">> }
SdValues  == { "False", "True", "1" }
Addresses == { DefaultAddress, InetAddr("10.0.0.5", 1514), PathAddr("/dev/log") }

\* level and creation time (whole seconds since the epoch, millisecond part)
Stamp(level, created, msecs) == [levelname |-> level, created |-> created, msecs |-> msecs]

Stamps == { Stamp(INFO,     1560377237, 772),    \* 2019-06-12T22:07:17.772Z
            Stamp(DEBUG,    951782405,  5),      \* 2000-02-29T00:00:05.005Z
            Stamp(WARNING,  946684799,  999),    \* 1999-12-31T23:59:59.999Z
            Stamp(ERROR,    1709251200, 0),      \* 2024-03-01T00:00:00.000Z
            Stamp(CRITICAL, 1560377237, 40),     \* 2019-06-12T22:07:17.040Z
            Stamp(TRACE,    86399,      100),    \* 1970-01-01T23:59:59.100Z
            Stamp(INFO,     0,          0) }     \* 1970-01-01T00:00:00.000Z

Bodies == { [body |-> <<"o", "k">>, isUnicode |-> FALSE],
            [body |-> <<"a", " ", "b">>, isUnicode |-> TRUE],
            [body |-> <<"[", "x", "]">>, isUnicode |-> FALSE],
            [body |-> <<"c", NonAscii>>, isUnicode |-> TRUE] }

LogRecord(st, b, raises) ==
    [levelname |-> st.levelname, created |-> st.created, msecs |-> st.msecs,
     body |-> b.body, isUnicode |-> b.isUnicode, formatRaises |-> raises]

\* the last one is a record whose formatting raises (arguments that do not fit
\* the message's format string)
Records ==
    { LogRecord(st, b, FALSE) : st \in Stamps, b \in Bodies }
    \cup { LogRecord(Stamp(INFO, 1560377237, 772),
                     [body |-> <<>>, isUnicode |-> FALSE], TRUE) }

NoRecord == LogRecord(Stamp(<<>>, 0, 0), [body |-> <<>>, isUnicode |-> FALSE], FALSE)

Nets == [send1 : BOOLEAN, connect : BOOLEAN, send2 : BOOLEAN]

\* the socket operations the chosen transport can reach
RelevantNets ==
    { n \in Nets : unixsocket \/ (n.connect /\ n.send2) }

-----------------------------------------------------------------------------
(* The state after MiniSysLogHandler(appname, procid, msgid, address, sd) *)

Init ==
    /\ fqdn \in Hostnames
    /\ cfgAddress \in Addresses
    /\ \E id \in Idents : appname = id.appname /\ procid = id.procid
    /\ msgid \in MsgIds
    /\ sd \in SdValues
    \* super(MiniSysLogHandler, self).__init__() runs with its own defaults
    /\ address = BaseDefaultAddress
    /\ facility = LOG_USER
    /\ unixsocket = FALSE
    /\ socktype = "SOCK_DGRAM"
    /\ sockOpen = TRUE
    /\ emits = 0
    /\ record = NoRecord
    /\ sdAtCall = "False"
    /\ trace = <<>>
    /\ escaped = NoExc

Next ==
    \/ \E rec \in Records, net \in RelevantNets : Emit(rec, net)
    \/ \E v \in SdValues : SetSd(v)

Spec == Init /\ [][Next]_vars

-----------------------------------------------------------------------------
(* The formatting functions on a wider range of inputs: the handler with its *)
(* default fields, every facility code, every level at every creation time   *)

Levels == { DEBUG, INFO, WARNING, ERROR, CRITICAL, TRACE }

Times == { [created |-> 1560377237, msecs |-> 772],    \* 2019-06-12T22:07:17.772Z
           [created |-> 951782405,  msecs |-> 5],      \* 2000-02-29T00:00:05.005Z
           [created |-> 946684799,  msecs |-> 999],    \* 1999-12-31T23:59:59.999Z
           [created |-> 1709251200, msecs |-> 0],      \* 2024-03-01T00:00:00.000Z
           [created |-> 2147483647, msecs |-> 59],     \* 2038-01-19T03:14:07.059Z
           [created |-> 68169600,   msecs |-> 600],    \* 1972-02-29T00:00:00.600Z
           [created |-> 86399,      msecs |-> 100],    \* 1970-01-01T23:59:59.100Z
           [created |-> 0,          msecs |-> 40] }    \* 1970-01-01T00:00:00.040Z

RecordsFmt ==
    { LogRecord(Stamp(l, t.created, t.msecs),
                [body |-> <<"o", "k">>, isUnicode |-> FALSE], FALSE) :
        l \in Levels, t \in Times }

InitFmt ==
    /\ fqdn \in Hostnames
    /\ cfgAddress = DefaultAddress
    /\ appname = <<"-">>
    /\ procid = <<"-">>
    /\ msgid = <<"-">>
    /\ sd = "False"
    /\ address = BaseDefaultAddress
    /\ facility \in 0..LOG_LOCAL7
    /\ unixsocket = FALSE
    /\ socktype = "SOCK_DGRAM"
    /\ sockOpen = TRUE
    /\ emits = 0
    /\ record = NoRecord
    /\ sdAtCall = "False"
    /\ trace = <<>>
    /\ escaped = NoExc

NextFmt == \E rec \in RecordsFmt, net \in RelevantNets : Emit(rec, net)

SpecFmt == InitFmt /\ [][NextFmt]_vars

-----------------------------------------------------------------------------
(* Reading a trace and a frame back *)

SendKinds == {"send", "sendto", "sendall"}

\* the positions of the send attempts of the latest emit() call
SendIdx == { i \in 1..Len(trace) : trace[i].ev \in SendKinds }

CountEv(ev) == Cardinality({ i \in 1..Len(trace) : trace[i].ev = ev })

\* the positions of the spaces of a frame, in increasing order
SpacePos(f) == SelectSeq([i \in 1..Len(f) |-> i], LAMBDA i : f[i] = " ")

\* the k-th space-separated field of a frame, and what follows its k-th space
Field(f, k) ==
    LET sp == SpacePos(f)
    IN  SubSeq(f, IF k = 1 THEN 1 ELSE sp[k - 1] + 1, sp[k] - 1)

Rest(f, k) == SubSeq(f, SpacePos(f)[k] + 1, Len(f))

DigitSet == { Digits[i] : i \in 1..10 }

IsNumber(s) == s # <<>> /\ \A i \in 1..Len(s) : s[i] \in DigitSet

DigitVal(c) == CHOOSE d \in 0..9 : Digits[d + 1] = c

RECURSIVE ParseNum(_)
ParseNum(s) == IF s = <<>> THEN 0
               ELSE 10 * ParseNum(SubSeq(s, 1, Len(s) - 1)) + DigitVal(s[Len(s)])

\* day number, counted from 1970-01-01, of a proleptic Gregorian date
DaysFromCivil(y, m, d) ==
    LET yy  == IF m <= 2 THEN y - 1 ELSE y
        era == yy \div 400
        yoe == yy - era * 400
        doy == (153 * (IF m > 2 THEN m - 3 ELSE m + 9) + 2) \div 5 + d - 1
        doe == yoe * 365 + yoe \div 4 - yoe \div 100 + doy
    IN  era * 146097 + doe - 719468

\* an RFC 5424 timestamp of the shape YYYY-MM-DDTHH:MM:SS.mmmZ
IsZuluMillis(ts) ==
    /\ Len(ts) = 24
    /\ ts[5] = "-" /\ ts[8] = "-" /\ ts[11] = "T" /\ ts[14] = ":" /\ ts[17] = ":"
    /\ ts[20] = "." /\ ts[24] = "Z"
    /\ \A i \in (1..23) \ {5, 8, 11, 14, 17, 20} : ts[i] \in DigitSet

\* the seconds since the epoch and the milliseconds such a timestamp denotes
ZuluSeconds(ts) ==
    DaysFromCivil(ParseNum(SubSeq(ts, 1, 4)), ParseNum(SubSeq(ts, 6, 7)),
                  ParseNum(SubSeq(ts, 9, 10))) * 86400
    + ParseNum(SubSeq(ts, 12, 13)) * 3600 + ParseNum(SubSeq(ts, 15, 16)) * 60
    + ParseNum(SubSeq(ts, 18, 19))

ZuluMillis(ts) == ParseNum(SubSeq(ts, 21, 23))

\* s occurs in f as a run of consecutive characters
Contains(f, s) ==
    \E i \in 1..(Len(f) - Len(s) + 1) : SubSeq(f, i, i + Len(s) - 1) = s

\* the latest emit() call failed while formatting
FormattingFailed ==
    record.formatRaises \/ \E i \in 1..Len(record.body) : record.body[i] = NonAscii

HandledLast(exc) ==
    /\ trace # <<>>
    /\ trace[Len(trace)].ev = "handleError"
    /\ trace[Len(trace)].exc = exc
    /\ CountEv("handleError") = 1

-----------------------------------------------------------------------------
(* C1: no exception raised while formatting or transmitting leaves emit():   *)
(* each one is handed to handleError(record), once, as the last thing the    *)
(* call does, and a call in which nothing fails does not call handleError.   *)

C1_NeverThrows ==
    /\ escaped = NoExc
    /\ emits > 0 =>
        /\ FormattingFailed =>
             /\ SendIdx = {}
             /\ HandledLast(IF record.formatRaises THEN "TypeError"
                            ELSE "UnicodeDecodeError")
        /\ ~FormattingFailed =>
             /\ SendIdx # {}
             /\ LET lastOp == trace[CHOOSE i \in 1..Len(trace) :
                                       /\ trace[i].ev # "handleError"
                                       /\ \A j \in (i + 1)..Len(trace) :
                                             trace[j].ev = "handleError"]
                IN  IF lastOp.ok THEN CountEv("handleError") = 0
                                 ELSE HandledLast("socket.error")

\* a second emit() call whose send fails and is handled
C1_Witness ==
    /\ emits = 2
    /\ ~FormattingFailed
    /\ \E i \in SendIdx : ~trace[i].ok
    /\ HandledLast("socket.error")
    /\ escaped = NoExc

-----------------------------------------------------------------------------
(* C2: with a Unix domain socket as the configured destination, a failed     *)
(* first send is followed by one close, one reconnect and one resend of the  *)
(* same frame, and nothing leaves emit().                                    *)

C2_UnixReconnectOnce ==
    (/\ cfgAddress.kind = "str"
     /\ emits > 0
     /\ SendIdx # {}
     /\ ~trace[1].ok)
    => /\ CountEv("close") = 1
       /\ CountEv("connect") = 1
       /\ Cardinality(SendIdx) = 2
       /\ \A i \in SendIdx : trace[i].data = trace[1].data
       /\ escaped = NoExc

-----------------------------------------------------------------------------
(* C3: over a UDP or TCP socket one emit() call makes at most one send       *)
(* attempt and never closes or reconnects; a failed send goes to handleError *)
(* and does not leave emit().                                                *)

C3_InetNoRetry ==
    (~unixsocket /\ emits > 0) =>
        /\ Cardinality(SendIdx) <= 1
        /\ CountEv("close") = 0
        /\ CountEv("connect") = 0
        /\ \A i \in SendIdx :
              /\ trace[i].ev \in {"sendto", "sendall"}
              /\ ~trace[i].ok => /\ i = 1
                                 /\ Len(trace) = 2
                                 /\ HandledLast("socket.error")
        /\ escaped = NoExc

C3_Witness ==
    /\ ~unixsocket
    /\ socktype = "SOCK_DGRAM"
    /\ Len(trace) = 2
    /\ trace[1].ev = "sendto" /\ ~trace[1].ok
    /\ trace[2].ev = "handleError"
    /\ escaped = NoExc

-----------------------------------------------------------------------------
(* C4: every frame is sent to the address given to the constructor, over the *)
(* transport that address selects (a path: Unix socket; host and port: UDP). *)

\* name resolution of the hosts of the model
Resolve(a) == IF a.host = "localhost" THEN [a EXCEPT !.host = "127.0.0.1"] ELSE a

C4_SendsToConfiguredAddress ==
    \A i \in SendIdx :
        /\ Resolve(trace[i].to) = Resolve(cfgAddress)
        /\ (trace[i].ev = "send") = (cfgAddress.kind = "str")

-----------------------------------------------------------------------------
(* C5: every frame handed to the transport is, in this order and separated   *)
(* by single spaces: <PRI>1, timestamp, hostname, appname, procid, the       *)
(* record's level name, then the structured-data slot and the message body;  *)
(* the configured msgid is no part of it.                                    *)

SampleMsgId == <<"I", "D", "4", "7">>

C5_FrameLayout ==
    \A i \in SendIdx :
        LET f  == trace[i].data
            f1 == Field(f, 1)
            tl == record.body \o <<NUL>>
        IN  /\ Len(SpacePos(f)) >= 6
            /\ Len(f1) >= 4
            /\ f1[1] = "<" /\ f1[Len(f1) - 1] = ">" /\ f1[Len(f1)] = "1"
            /\ IsNumber(SubSeq(f1, 2, Len(f1) - 2))
            /\ IsZuluMillis(Field(f, 2))
            /\ Field(f, 3) = fqdn
            /\ Field(f, 4) = appname
            /\ Field(f, 5) = procid
            /\ Field(f, 6) = record.levelname
            /\ Rest(f, 6) \in { tl, <<"-", " ">> \o tl }
            /\ msgid = SampleMsgId => ~Contains(f, msgid)

\* a frame sent by a handler constructed with msgid='ID47', appname and procid set
C5_Witness ==
    /\ msgid = SampleMsgId
    /\ appname = <<"A", "p", "p">>
    /\ procid = <<"T", "1">>
    /\ \E i \in SendIdx : trace[i].ok /\ Field(trace[i].data, 6) = WARNING

-----------------------------------------------------------------------------
(* C6: for every facility code and every level of the table, the frame       *)
(* starts with <PRI>1 and a space, PRI being the decimal facility*8+severity *)
(* (CRITICAL 2, ERROR 3, WARNING 4, INFO 6, DEBUG 7); facility 1 with INFO   *)
(* gives <14>1.                                                              *)

Severity(level) ==
    CASE level = CRITICAL -> 2
      [] level = ERROR    -> 3
      [] level = WARNING  -> 4
      [] level = INFO     -> 6
      [] level = DEBUG    -> 7

C6_Priority ==
    \A i \in SendIdx :
        record.levelname \in {CRITICAL, ERROR, WARNING, INFO, DEBUG} =>
            LET f   == trace[i].data
                f1  == Field(f, 1)
                pri == SubSeq(f1, 2, Len(f1) - 2)
            IN  /\ Len(f1) >= 4
                /\ f1[1] = "<" /\ f1[Len(f1) - 1] = ">" /\ f1[Len(f1)] = "1"
                /\ f[Len(f1) + 1] = " "
                /\ IsNumber(pri)
                /\ (Len(pri) > 1 => pri[1] # "0")
                /\ ParseNum(pri) = facility * 8 + Severity(record.levelname)
                /\ (facility = 1 /\ record.levelname = INFO)
                      => SubSeq(f, 1, 6) = <<"<", "1", "4", ">", "1", " ">>

\* a three-digit priority: facility local7 (23) at level DEBUG is 191
C6_Witness ==
    /\ facility = LOG_LOCAL7
    /\ record.levelname = DEBUG
    /\ \E i \in SendIdx : SubSeq(trace[i].data, 1, 8) = <<"<", "1", "9", "1", ">", "1", " ", "2">>

-----------------------------------------------------------------------------
(* C7: the value of sd read by the call selects the structured-data slot:    *)
(* False puts the token - between the level name and the body, True puts the *)
(* body right after the level name.                                          *)

C7_SdSelectsSlot ==
    \A i \in SendIdx :
        LET f  == trace[i].data
            tl == record.body \o <<NUL>>
        IN  /\ Field(f, 6) = record.levelname
            /\ sdAtCall = "False" => /\ Len(SpacePos(f)) >= 7
                                     /\ Field(f, 7) = <<"-">>
                                     /\ Rest(f, 7) = tl
            /\ sdAtCall = "True"  => Rest(f, 6) = tl

\* the second call ran with sd True and a structured-data body; sd has been set
\* to False since
C7_Witness ==
    /\ emits = 2
    /\ sdAtCall = "True"
    /\ sd = "False"
    /\ record.body = <<"[", "x", "]">>
    /\ \E i \in SendIdx : Rest(trace[i].data, 6) = <<"[", "x", "]", NUL>>

-----------------------------------------------------------------------------
(* C8: an empty appname or procid is rendered as - and never as an empty     *)
(* field.                                                                    *)

C8_NilValueForEmpty ==
    \A i \in SendIdx :
        LET f == trace[i].data
        IN  /\ Field(f, 4) # <<>>
            /\ Field(f, 5) # <<>>
            /\ appname = <<>> => Field(f, 4) = <<"-">>
            /\ procid = <<>>  => Field(f, 5) = <<"-">>

-----------------------------------------------------------------------------
(* C9: the timestamp of a frame is YYYY-MM-DDTHH:MM:SS.mmmZ, the UTC time of *)
(* the record's creation: it ends in Z and its fraction is the record's      *)
(* millisecond part in three digits, zero-padded on the left.                *)

C9_Timestamp ==
    \A i \in SendIdx :
        LET ts == Field(trace[i].data, 2)
        IN  /\ IsZuluMillis(ts)
            /\ ZuluSeconds(ts) = record.created
            /\ ZuluMillis(ts) = record.msecs
            /\ ParseNum(SubSeq(ts, 6, 7)) \in 1..12
            /\ ParseNum(SubSeq(ts, 9, 10)) \in 1..31
            /\ ParseNum(SubSeq(ts, 12, 13)) \in 0..23
            /\ ParseNum(SubSeq(ts, 15, 16)) \in 0..59
            /\ ParseNum(SubSeq(ts, 18, 19)) \in 0..59
            /\ (record.created = 1560377237 /\ record.msecs = 772) =>
                  ts = <<"2", "0", "1", "9", "-", "0", "6", "-", "1", "2", "T",
                         "2", "2", ":", "0", "7", ":", "1", "7", ".", "7", "7", "2", "Z">>

\* 5 ms past 2000-02-29T00:00:05 gives the fraction .005
C9_Witness ==
    /\ record.msecs = 5
    /\ \E i \in SendIdx :
          Field(trace[i].data, 2) =
              <<"2", "0", "0", "0", "-", "0", "2", "-", "2", "9", "T",
                "0", "0", ":", "0", "0", ":", "0", "5", ".", "0", "0", "5", "Z">>

-----------------------------------------------------------------------------
(* C10: the frame ends with the message body, and a NUL terminator follows   *)
(* the body only if NUL framing is configured.                               *)

\* __init__ takes no option for NUL framing and emit() reads none
NulFramingConfigured == FALSE

C10_NulOnlyIfConfigured ==
    \A i \in SendIdx :
        LET f == trace[i].data
        IN  (f[Len(f)] = NUL) <=> NulFramingConfigured

(* C10 as amended: the frame ends with the message body followed by exactly  *)
(* one NUL terminator, in every call.                                        *)

C10_AlwaysOneNul ==
    \A i \in SendIdx :
        LET f == trace[i].data
            n == Len(record.body)
        IN  /\ Len(f) > n
            /\ f[Len(f)] = NUL
            /\ SubSeq(f, Len(f) - n, Len(f) - 1) = record.body
            /\ Cardinality({ k \in 1..Len(f) : f[k] = NUL }) = 1

C10_Witness ==
    /\ record.body = <<"a", " ", "b">>
    /\ \E i \in SendIdx :
          /\ trace[i].ok
          /\ SubSeq(trace[i].data, Len(trace[i].data) - 3, Len(trace[i].data))
                = <<"a", " ", "b", NUL>>

====
